---- MODULE Spec2Model ----
(***************************************************************************)
(* Model of src/app.py: a Streamlit dashboard over three SQLite tables     *)
(* (gastos, presupuesto, ingresos) with a weekly aggregation, a            *)
(* budget-vs-actual comparison and a naive weekly forecast.                *)
(*                                                                         *)
(* Dates are day numbers counted from Monday 2025-03-03 (day 0); day 6 is  *)
(* Sunday 2025-03-09, the end of the first weekly bin of freq="W".         *)
(* A date cell is a record [k, d]:                                         *)
(*   k = "text"  a string that parses to day d (what SQLite returns)       *)
(*   k = "ts"    a pandas Timestamp of day d                               *)
(*   k = "bad"   a string that does not parse                              *)
(*   k = "null"  None / NaT                                                *)
(***************************************************************************)
EXTENDS Integers, Sequences, FiniteSets, TLC

\* ------------------------------------------------------------------------
\* Bounds of the model
\* ------------------------------------------------------------------------
MaxRows == 2        \* rows of a frame handed to the forecast
MaxWeeks == 2       \* forecast horizons tried: 1..MaxWeeks
MaxCompRows == 2    \* rows of the frames handed to the comparison
MaxEditRows == 1    \* rows of a gastos table a user leaves in the editor

\* ------------------------------------------------------------------------
\* Values
\* ------------------------------------------------------------------------
Text(d) == [k |-> "text", d |-> d]
Ts(d) == [k |-> "ts", d |-> d]
Bad == [k |-> "bad", d |-> 0]
Null == [k |-> "null", d |-> 0]

Dias == {0, 6, 7, 21}
Montos == {100, 2000}

\* Sequences over S of length at most n.
SeqsUpTo(S, n) == UNION {[1..m -> S] : m \in 0..n}

RECURSIVE SumSeq(_)
SumSeq(s) == IF s = <<>> THEN 0 ELSE Head(s) + SumSeq(Tail(s))

RECURSIVE SetMin(_)
SetMin(S) == LET x == CHOOSE y \in S : TRUE
             IN IF S = {x} THEN x
                ELSE LET m == SetMin(S \ {x}) IN IF x < m THEN x ELSE m

RECURSIVE SetMax(_)
SetMax(S) == LET x == CHOOSE y \in S : TRUE
             IN IF S = {x} THEN x
                ELSE LET m == SetMax(S \ {x}) IN IF x > m THEN x ELSE m

\* ------------------------------------------------------------------------
\* pandas operations used by forecast_semanal_naive and main
\* ------------------------------------------------------------------------

\* Mutant: a parse that recognises no string (every text date becomes NaT).
ToDatetimeCell_SinTexto(f) == IF f.k = "ts" THEN f ELSE Null

\* pd.to_datetime(value, errors="coerce") on one cell.
ToDatetimeCell(f) ==
    CASE f.k = "text" -> Ts(f.d)
      [] f.k = "ts" -> f
      [] f.k = "bad" -> Null
      [] OTHER -> Null

\* df["fecha"] = pd.to_datetime(df["fecha"], errors="coerce")
ToDatetime(frame) ==
    [i \in 1..Len(frame) |-> [frame[i] EXCEPT !.fecha = ToDatetimeCell(frame[i].fecha)]]

\* The Sunday that closes the weekly bin of day d (freq="W" is W-SUN, bins
\* closed and labelled on the right).
WeekEnd(d) == d + (6 - (d % 7))

\* Mutant: rows with a NaT key are kept in the grouping (they fall on day 0).
Dated_ConNaT(frame) == 1..Len(frame)

\* Rows of a coerced frame that take part in the grouping: NaT keys are left
\* out of every bin.
Dated(frame) == {i \in 1..Len(frame) : frame[i].fecha.k = "ts"}

RECURSIVE SumMonto(_, _)
SumMonto(frame, I) ==
    IF I = {} THEN 0
    ELSE LET i == CHOOSE j \in I : TRUE
         IN frame[i].monto + SumMonto(frame, I \ {i})

\* Mutant: a grouping by week label that yields only the weeks that hold rows.
GroupByWeek_SoloConFilas(frame) ==
    LET wes == {WeekEnd(frame[i].fecha.d) : i \in Dated(frame)}
        F[S \in SUBSET wes] ==
            IF S = {} THEN <<>>
            ELSE LET we == SetMin(S)
                 IN <<[fecha |-> we,
                       total |-> SumMonto(frame,
                                   {i \in Dated(frame) : WeekEnd(frame[i].fecha.d) = we})]>>
                    \o F[S \ {we}]
    IN F[wes]

\* df.groupby(pd.Grouper(key="fecha", freq="W"))["monto"].sum().reset_index()
\* on a frame with at least one dated row: one row per weekly bin from the bin
\* of the earliest date to the bin of the latest one, a bin without rows
\* summing to 0.
GroupByWeek(frame) ==
    LET ds == {frame[i].fecha.d : i \in Dated(frame)}
        first == WeekEnd(SetMin(ds))
        last == WeekEnd(SetMax(ds))
        nbins == ((last - first) \div 7) + 1
    IN [b \in 1..nbins |->
          LET we == first + 7 * (b - 1)
          IN [fecha |-> we,
              total |-> SumMonto(frame,
                          {i \in Dated(frame) : WeekEnd(frame[i].fecha.d) = we})]]

\* df_sem["Gasto Semanal"].mean(): a rational num/den; den = 0 stands for NaN,
\* the mean of an empty column.
Mean(sem) == [num |-> SumSeq([b \in 1..Len(sem) |-> sem[b].total]), den |-> Len(sem)]

\* df_sem["fecha"].max(); NaT (hoy = FALSE, nat = TRUE) when there is no week.
MaxFecha(sem) ==
    IF sem = <<>> THEN [nat |-> TRUE, hoy |-> FALSE, d |-> 0]
    ELSE [nat |-> FALSE, hoy |-> FALSE, d |-> SetMax({sem[b].fecha : b \in 1..Len(sem)})]

\* if pd.isnull(ultima_semana): ultima_semana = datetime.today()
\* A day taken from today is kept as an offset from today (hoy = TRUE).
UltimaSemana(sem) ==
    IF MaxFecha(sem).nat THEN [nat |-> FALSE, hoy |-> TRUE, d |-> 0] ELSE MaxFecha(sem)

\* semanas_futuras and the returned frame.
Proyeccion(ultima, promedio, n) ==
    [i \in 1..n |-> [Semana |-> [ultima EXCEPT !.d = ultima.d + 7 * i],
                     GastoProyectado |-> promedio]]

\* ------------------------------------------------------------------------
\* State
\* ------------------------------------------------------------------------
VARIABLES
    df,              \* forecast_semanal_naive: the frame passed in (the caller's object)
    n_weeks,         \* forecast_semanal_naive: the horizon
    fpc,             \* forecast_semanal_naive: position in the function
    df_sem,          \* forecast_semanal_naive: the weekly series
    gasto_promedio,  \* forecast_semanal_naive: its mean
    ultima_semana,   \* forecast_semanal_naive: the last week
    df_forecast,     \* forecast_semanal_naive: the returned frame
    sinSemanas,      \* what the weekly grouping does when no row is dated
    df0,             \* the frame as the caller held it at the call
    df_gastos_final,       \* main, comparison: the edited gastos
    df_presupuesto_final,  \* main, comparison: the edited presupuesto
    df_cat,                \* main, comparison: spend per category
    df_comp,               \* main, comparison: the comparison frame
    cpc,                   \* main, comparison: position in the block
    db,              \* database.db: the stored rows of each table
    pc,              \* per session: position of its pass through main
    dfs,             \* per session: df_gastos, df_presupuesto, df_ingresos
    edits,           \* per session: edit_gastos, edit_presupuesto, edit_ingresos
    inicio,          \* per session: the stored tables when its pass began
    pulsados,        \* per session: the save buttons that fired in its pass
    guardado,        \* per table: the frame handed to the latest guardar_tabla_df
    previo           \* per session: guardado as it was when its pass began

fvars == <<df, n_weeks, fpc, df_sem, gasto_promedio, ultima_semana, df_forecast,
           sinSemanas, df0>>
cvars == <<df_gastos_final, df_presupuesto_final, df_cat, df_comp, cpc>>
svars == <<db, pc, dfs, edits, inicio, pulsados, guardado, previo>>
vars == <<fvars, cvars, svars>>

\* ------------------------------------------------------------------------
\* The record store: database.db, leer_tabla_df, guardar_tabla_df, the seeds
\* ------------------------------------------------------------------------
Tablas == {"gastos", "presupuesto", "ingresos"}
Sessions == {1, 2}

\* What SQLite holds for a date cell written by to_sql: a Timestamp is stored
\* as its text, a string or NULL as it is.
ToSqlCell(f) == IF f.k = "ts" THEN Text(f.d) ELSE f

ToSql(frame) ==
    [i \in 1..Len(frame) |->
        IF "fecha" \in DOMAIN frame[i]
        THEN [frame[i] EXCEPT !.fecha = ToSqlCell(frame[i].fecha)]
        ELSE frame[i]]

\* Mutant: if_exists="append", the frame's rows are added to the stored ones.
GuardarTabla_Append(store, frame, t) == [store EXCEPT ![t] = @ \o ToSql(frame)]

\* Mutant: a table that already holds rows is left as it is.
GuardarTabla_SiVacia(store, frame, t) ==
    IF store[t] = <<>> THEN [store EXCEPT ![t] = ToSql(frame)] ELSE store

\* guardar_tabla_df(df, tabla): df.to_sql(tabla, conn, if_exists="replace",
\* index=False) drops the table and writes the frame's rows.
GuardarTabla(store, frame, t) == [store EXCEPT ![t] = ToSql(frame)]

\* leer_tabla_df(tabla): SELECT * FROM tabla
LeerTabla(store, t) == store[t]

\* Mutant: the seeding does not test for emptiness.
Vacia_Siempre(frame) == TRUE

\* df.empty
Vacia(frame) == frame = <<>>

\* generar_datos_gastos_inicial(): rows with Timestamp dates (a two-row stand-in
\* for the twenty rows drawn with a fixed seed).
SeedGastos ==
    << [fecha |-> Ts(0), categoria |-> "Renta", monto |-> 100, tipo |-> "otro"],
       [fecha |-> Ts(7), categoria |-> "Comida", monto |-> 300, tipo |-> "tarjeta"] >>

\* generar_presupuesto_inicial(): its first two lines.
SeedPresupuesto ==
    << [categoria |-> "Impuestos", presupuesto_asignado |-> 700],
       [categoria |-> "Renta", presupuesto_asignado |-> 2000] >>

\* generar_ingresos_inicial()
SeedIngresos ==
    << [fuente |-> "Salario", monto |-> 14000],
       [fuente |-> "Flexible", monto |-> 1000] >>

Seed(t) ==
    CASE t = "gastos" -> SeedGastos
      [] t = "presupuesto" -> SeedPresupuesto
      [] OTHER -> SeedIngresos

\* Rows a user types into the gastos editor. The date column holds Timestamps
\* when the frame came from the seed and strings when it came from SQLite.
FilasEditor(frame) ==
    IF \E i \in 1..Len(frame) : frame[i].fecha.k = "ts"
    THEN { [fecha |-> Ts(0), categoria |-> "Renta", monto |-> 100, tipo |-> "otro"],
           [fecha |-> Null, categoria |-> "Comida", monto |-> 2000, tipo |-> "tarjeta"] }
    ELSE { [fecha |-> Text(0), categoria |-> "Renta", monto |-> 100, tipo |-> "otro"],
           [fecha |-> Bad, categoria |-> "Comida", monto |-> 2000, tipo |-> "tarjeta"] }

\* st.data_editor(df_gastos, num_rows="dynamic"): rows may be added and
\* deleted; st.data_editor(df_presupuesto), st.data_editor(df_ingresos): the
\* rows are fixed and their amounts may be edited.
Editor(t, frame) ==
    CASE t = "gastos" -> {frame} \cup SeqsUpTo(FilasEditor(frame), MaxEditRows)
      [] t = "presupuesto" ->
           {g \in [1..Len(frame) -> [categoria : {frame[i].categoria : i \in 1..Len(frame)},
                                     presupuesto_asignado : {700, 2000}]] :
               \A i \in 1..Len(frame) : g[i].categoria = frame[i].categoria}
      [] OTHER ->
           {g \in [1..Len(frame) -> [fuente : {frame[i].fuente : i \in 1..Len(frame)},
                                     monto : {1000, 14000}]] :
               \A i \in 1..Len(frame) : g[i].fuente = frame[i].fuente}

NoTablas == [t \in Tablas |-> <<>>]
NoGuardado == [t \in Tablas |-> [set |-> FALSE, snap |-> <<>>, by |-> 0]]

IdleStore ==
    /\ db = NoTablas
    /\ pc = [s \in Sessions |-> "off"]
    /\ dfs = [s \in Sessions |-> NoTablas]
    /\ edits = [s \in Sessions |-> NoTablas]
    /\ inicio = [s \in Sessions |-> NoTablas]
    /\ pulsados = [s \in Sessions |-> {}]
    /\ guardado = NoGuardado
    /\ previo = [s \in Sessions |-> NoGuardado]

NoComp == [ok |-> FALSE, rows |-> <<>>]

IdleComparar ==
    /\ df_gastos_final = <<>>
    /\ df_presupuesto_final = <<>>
    /\ df_cat = <<>>
    /\ df_comp = NoComp
    /\ cpc = "idle"

\* ------------------------------------------------------------------------
\* forecast_semanal_naive(df, n_weeks)
\* ------------------------------------------------------------------------
NoSem == <<>>
NoProm == [num |-> 0, den |-> 0]
NoUltima == [nat |-> TRUE, hoy |-> FALSE, d |-> 0]
NoForecast == [ok |-> FALSE, rows |-> <<>>]

\* A column read from SQLite or typed in the editor holds strings or None; a
\* column that was already coerced holds Timestamps or NaT.
FechasTexto == {Text(d) : d \in Dias} \cup {Bad, Null}
FechasTs == {Ts(d) : d \in Dias} \cup {Null}

\* Rows of gastos: fecha, categoria, monto, tipo.
FilasDe(fechas, categorias, tipos) ==
    [fecha : fechas, categoria : categorias, monto : Montos, tipo : tipos]

FramesForecast ==
    SeqsUpTo(FilasDe(FechasTexto, {"Renta"}, {"otro"}), MaxRows)
      \cup SeqsUpTo(FilasDe(FechasTs, {"Renta"}, {"otro"}), MaxRows)

InitForecast ==
    /\ df \in FramesForecast
    /\ df0 = df
    /\ n_weeks \in 1..MaxWeeks
    /\ sinSemanas \in {"raises", "empty"}
    /\ fpc = "call"
    /\ df_sem = NoSem
    /\ gasto_promedio = NoProm
    /\ ultima_semana = NoUltima
    /\ df_forecast = NoForecast
    /\ IdleComparar
    /\ IdleStore

\* if df.empty: return pd.DataFrame(columns=[...])
ReturnEmpty ==
    /\ fpc = "call"
    /\ df = <<>>
    /\ df_forecast' = [ok |-> TRUE, rows |-> <<>>]
    /\ fpc' = "returned"
    /\ UNCHANGED <<df, n_weeks, df_sem, gasto_promedio, ultima_semana, sinSemanas, df0, cvars, svars>>

\* df["fecha"] = pd.to_datetime(df["fecha"], errors="coerce"): assigns the
\* column of the frame that was passed in.
Coerce ==
    /\ fpc = "call"
    /\ df # <<>>
    /\ df' = ToDatetime(df)
    /\ fpc' = "group"
    /\ UNCHANGED <<n_weeks, df_sem, gasto_promedio, ultima_semana, df_forecast, sinSemanas, df0, cvars, svars>>

\* df_sem = df.groupby(pd.Grouper(key="fecha", freq="W"))["monto"].sum().reset_index()
Group ==
    /\ fpc = "group"
    /\ Dated(df) # {}
    /\ df_sem' = GroupByWeek(df)
    /\ fpc' = "mean"
    /\ UNCHANGED <<df, n_weeks, gasto_promedio, ultima_semana, df_forecast, sinSemanas, df0, cvars, svars>>

\* The same statement on a column that is all NaT. pandas derives the bins
\* from the column's min and max, which are NaT: depending on the build the
\* grouping raises or yields no bins.
GroupNoDates ==
    /\ fpc = "group"
    /\ Dated(df) = {}
    /\ \/ /\ sinSemanas = "raises"
          /\ fpc' = "raised"
          /\ UNCHANGED df_sem
       \/ /\ sinSemanas = "empty"
          /\ df_sem' = <<>>
          /\ fpc' = "mean"
    /\ UNCHANGED <<df, n_weeks, gasto_promedio, ultima_semana, df_forecast, sinSemanas, df0, cvars, svars>>

\* gasto_promedio = ...mean(); ultima_semana = ...max(); the today fallback
Promedio ==
    /\ fpc = "mean"
    /\ gasto_promedio' = Mean(df_sem)
    /\ ultima_semana' = UltimaSemana(df_sem)
    /\ fpc' = "project"
    /\ UNCHANGED <<df, n_weeks, df_sem, df_forecast, sinSemanas, df0, cvars, svars>>

\* semanas_futuras = [...]; return pd.DataFrame({...})
Project ==
    /\ fpc = "project"
    /\ df_forecast' = [ok |-> TRUE, rows |-> Proyeccion(ultima_semana, gasto_promedio, n_weeks)]
    /\ fpc' = "returned"
    /\ UNCHANGED <<df, n_weeks, df_sem, gasto_promedio, ultima_semana, sinSemanas, df0, cvars, svars>>

NextForecast == ReturnEmpty \/ Coerce \/ Group \/ GroupNoDates \/ Promedio \/ Project

SpecForecast == InitForecast /\ [][NextForecast]_vars

\* ------------------------------------------------------------------------
\* Properties of forecast_semanal_naive (checked under SpecForecast)
\* ------------------------------------------------------------------------
Parses(f) == f.k \in {"text", "ts"}
Returned == fpc = "returned"
Ended == fpc \in {"returned", "raised"}
Grouped == fpc \in {"mean", "project", "returned"}

\* Rows of the caller's table whose date parses and falls in the seven days
\* that end on day we.
InWeek(we) == {i \in 1..Len(df0) : Parses(df0[i].fecha)
                                   /\ we - 6 <= df0[i].fecha.d /\ df0[i].fecha.d <= we}

\* C1: for every table and every positive horizon the call returns; the
\* result is empty for an empty table and otherwise holds exactly n_weeks
\* entries, each carrying the mean of the weekly totals.
C1_ReturnsMeanTimesN ==
    Ended =>
        /\ df_forecast.ok
        /\ df0 = <<>> => df_forecast.rows = <<>>
        /\ df0 # <<>> =>
             /\ Len(df_forecast.rows) = n_weeks
             /\ \A i \in 1..n_weeks :
                   /\ df_forecast.rows[i].GastoProyectado.den = Len(df_sem)
                   /\ df_forecast.rows[i].GastoProyectado.num
                        = SumSeq([b \in 1..Len(df_sem) |-> df_sem[b].total])

\* C2 as stated: the weekly totals ascend by week-end date and hold an entry
\* only for weeks with at least one transaction, so only such weeks enter the
\* mean.
C2_NoGapEntries ==
    Grouped =>
        /\ \A b \in 1..Len(df_sem) - 1 : df_sem[b].fecha < df_sem[b + 1].fecha
        /\ \A b \in 1..Len(df_sem) : InWeek(df_sem[b].fecha) # {}
        /\ fpc \in {"project", "returned"} =>
             gasto_promedio.den
               = Cardinality({we \in {WeekEnd(d) : d \in Dias} : InWeek(we) # {}})

\* C2 amended: the weekly totals ascend by week-end date in steps of exactly
\* one week from the week of the earliest transaction to the week of the
\* latest one; a week in between without transactions is present with total 0
\* and counts in the mean's denominator.
C2_GapWeeksAreZeroEntries ==
    Grouped /\ df_sem # <<>> =>
        /\ \A b \in 1..Len(df_sem) - 1 : df_sem[b + 1].fecha = df_sem[b].fecha + 7
        /\ InWeek(df_sem[1].fecha) # {}
        /\ InWeek(df_sem[Len(df_sem)].fecha) # {}
        /\ \A b \in 1..Len(df_sem) : InWeek(df_sem[b].fecha) = {} => df_sem[b].total = 0
        /\ fpc \in {"project", "returned"} => gasto_promedio.den = Len(df_sem)

\* C2 witness: a forecast was returned over a series whose middle week holds
\* no transaction.
C2_GapWitness ==
    /\ Returned
    /\ \E b \in 2..Len(df_sem) - 1 : InWeek(df_sem[b].fecha) = {}

\* C3: whenever the weekly totals are computed, their sum is the sum of the
\* amounts of the rows whose date parses; each week's total is the sum of the
\* parsed rows of that week, every parsed row lies in exactly one week of the
\* series, and a row with an unparseable date lies in none.
C3_WeeklySumIsParsedSum ==
    Grouped =>
        /\ SumSeq([b \in 1..Len(df_sem) |-> df_sem[b].total])
             = SumMonto(df0, {i \in 1..Len(df0) : Parses(df0[i].fecha)})
        /\ \A b \in 1..Len(df_sem) :
              df_sem[b].total = SumMonto(df0, InWeek(df_sem[b].fecha))
        /\ \A i \in 1..Len(df0) :
              Cardinality({b \in 1..Len(df_sem) : i \in InWeek(df_sem[b].fecha)})
                = IF Parses(df0[i].fecha) THEN 1 ELSE 0

\* C3 witness: totals computed over a table that mixes a parsed and an
\* unparseable date.
C3_MixedWitness ==
    /\ Grouped
    /\ \E i, j \in 1..Len(df0) : Parses(df0[i].fecha) /\ df0[j].fecha.k = "bad"

\* C9 as stated: for every non-empty table the call ends with at least one
\* historical week, a last week that is not null (no today fallback) and a
\* defined projected amount.
C9_AlwaysAWeek ==
    Ended /\ df0 # <<>> =>
        /\ Returned
        /\ Len(df_sem) >= 1
        /\ ~ultima_semana.hoy
        /\ \A i \in 1..Len(df_forecast.rows) : df_forecast.rows[i].GastoProyectado.den # 0

\* C9 amended: for every table with at least one parseable date the call does
\* not raise, at least one historical week exists, the last week is not null
\* (the today fallback is not taken) and the projected amount is defined.
C9_AWeekWhenSomeDateParses ==
    (\E i \in 1..Len(df0) : Parses(df0[i].fecha)) =>
        /\ fpc # "raised"
        /\ Grouped => Len(df_sem) >= 1 /\ ~MaxFecha(df_sem).nat
        /\ Returned =>
             /\ ~ultima_semana.hoy /\ ~ultima_semana.nat
             /\ Len(df_forecast.rows) = n_weeks
             /\ \A i \in 1..n_weeks : df_forecast.rows[i].GastoProyectado.den # 0

\* C9 witness: a forecast returned for a table with one unparseable and one
\* parseable date.
C9_Witness ==
    /\ Returned
    /\ \E i, j \in 1..Len(df0) : df0[i].fecha.k = "bad" /\ df0[j].fecha.k = "text"

\* C10: a call leaves the table passed to it as the caller held it, dates
\* included.
C10_ArgumentUnchanged == Ended => df = df0

\* ------------------------------------------------------------------------
\* main: "Comparar Gasto Actual vs Presupuesto por Categoria"
\* ------------------------------------------------------------------------
Presupuestos == {150, 2000}
CatsGasto == {"Renta", "Comida"}
CatsPresupuesto == {"Renta", "Ahorro"}
\* The order groupby gives its keys (sorted).
CatOrden == <<"Ahorro", "Comida", "Renta">>

\* Mutant: the comparison is computed without the emptiness test.
HayGastos_Siempre(frame) == TRUE

\* if not df_gastos_final.empty
HayGastos(frame) == frame # <<>>

RECURSIVE SumCategoria(_, _)
SumCategoria(frame, c) ==
    IF frame = <<>> THEN 0
    ELSE (IF Head(frame).categoria = c THEN Head(frame).monto ELSE 0)
           + SumCategoria(Tail(frame), c)

IsCatPresent(frame, c) == \E i \in 1..Len(frame) : frame[i].categoria = c

\* df_gastos_final.groupby("categoria")["monto"].sum().reset_index(), the
\* column renamed to "Gasto Actual": one row per category that occurs.
RECURSIVE GroupByCategoria(_, _)
GroupByCategoria(frame, orden) ==
    IF orden = <<>> THEN <<>>
    ELSE (IF IsCatPresent(frame, Head(orden))
          THEN <<[categoria |-> Head(orden),
                  GastoActual |-> SumCategoria(frame, Head(orden))]>>
          ELSE <<>>)
         \o GroupByCategoria(frame, Tail(orden))

\* The rows one left row yields in a left merge on "categoria": one per
\* matching right row, or one with a missing "Gasto Actual" when none matches.
RECURSIVE Matches(_, _)
Matches(l, right) ==
    IF right = <<>> THEN <<>>
    ELSE (IF Head(right).categoria = l.categoria
          THEN <<[categoria |-> l.categoria,
                  presupuesto_asignado |-> l.presupuesto_asignado,
                  GastoActual |-> [nan |-> FALSE, v |-> Head(right).GastoActual]]>>
          ELSE <<>>)
         \o Matches(l, Tail(right))

\* Mutant: how="inner", a left row without a match yields no row.
RECURSIVE MergeLeft_Inner(_, _)
MergeLeft_Inner(left, right) ==
    IF left = <<>> THEN <<>>
    ELSE Matches(Head(left), right) \o MergeLeft_Inner(Tail(left), right)

\* pd.merge(left, right, on="categoria", how="left")
RECURSIVE MergeLeft(_, _)
MergeLeft(left, right) ==
    IF left = <<>> THEN <<>>
    ELSE (IF Matches(Head(left), right) = <<>>
          THEN <<[categoria |-> Head(left).categoria,
                  presupuesto_asignado |-> Head(left).presupuesto_asignado,
                  GastoActual |-> [nan |-> TRUE, v |-> 0]]>>
          ELSE Matches(Head(left), right))
         \o MergeLeft(Tail(left), right)

\* .fillna({"Gasto Actual": 0})
FillNa(frame) ==
    [i \in 1..Len(frame) |->
        [categoria |-> frame[i].categoria,
         presupuesto_asignado |-> frame[i].presupuesto_asignado,
         GastoActual |-> IF frame[i].GastoActual.nan THEN 0 ELSE frame[i].GastoActual.v]]

\* df_comp["Diferencia"] = df_comp["presupuesto_asignado"] - df_comp["Gasto Actual"]
ConDiferencia(frame) ==
    [i \in 1..Len(frame) |->
        [categoria |-> frame[i].categoria,
         presupuesto_asignado |-> frame[i].presupuesto_asignado,
         GastoActual |-> frame[i].GastoActual,
         Diferencia |-> frame[i].presupuesto_asignado - frame[i].GastoActual]]

FramesGastoComp == SeqsUpTo(FilasDe({Ts(0)}, CatsGasto, {"otro"}), MaxCompRows)
FramesPresupuesto ==
    SeqsUpTo([categoria : CatsPresupuesto, presupuesto_asignado : Presupuestos], MaxCompRows)

IdleForecast ==
    /\ df = <<>>
    /\ df0 = <<>>
    /\ n_weeks = 1
    /\ sinSemanas = "raises"
    /\ fpc = "idle"
    /\ df_sem = NoSem
    /\ gasto_promedio = NoProm
    /\ ultima_semana = NoUltima
    /\ df_forecast = NoForecast

InitComparar ==
    /\ df_gastos_final \in FramesGastoComp
    /\ df_presupuesto_final \in FramesPresupuesto
    /\ df_cat = <<>>
    /\ df_comp = NoComp
    /\ cpc = "start"
    /\ IdleForecast
    /\ IdleStore

\* else: st.info("No hay gastos para comparar con el presupuesto.")
SinGastos ==
    /\ cpc = "start"
    /\ ~HayGastos(df_gastos_final)
    /\ cpc' = "info"
    /\ UNCHANGED <<df_gastos_final, df_presupuesto_final, df_cat, df_comp, fvars, svars>>

\* df_cat = ...groupby("categoria")["monto"].sum().reset_index(); rename
Agrupar ==
    /\ cpc = "start"
    /\ HayGastos(df_gastos_final)
    /\ df_cat' = GroupByCategoria(df_gastos_final, CatOrden)
    /\ cpc' = "merge"
    /\ UNCHANGED <<df_gastos_final, df_presupuesto_final, df_comp, fvars, svars>>

\* df_comp = pd.merge(...).fillna({"Gasto Actual": 0}); df_comp["Diferencia"] = ...
Comparar ==
    /\ cpc = "merge"
    /\ df_comp' = [ok |-> TRUE,
                   rows |-> ConDiferencia(FillNa(MergeLeft(df_presupuesto_final, df_cat)))]
    /\ cpc' = "shown"
    /\ UNCHANGED <<df_gastos_final, df_presupuesto_final, df_cat, fvars, svars>>

NextComparar == SinGastos \/ Agrupar \/ Comparar

SpecComparar == InitComparar /\ [][NextComparar]_vars

\* ------------------------------------------------------------------------
\* Properties of the comparison (checked under SpecComparar)
\* ------------------------------------------------------------------------
ComparacionTerminada == cpc \in {"info", "shown"}

\* C4: a computed comparison has one row per budget row, in the budget's
\* order and with the budget's categories (so none that occurs only in
\* transactions), and each difference is the assigned amount minus the summed
\* transaction amount of the row's category.
C4_OneRowPerBudgetRow ==
    df_comp.ok =>
        /\ Len(df_comp.rows) = Len(df_presupuesto_final)
        /\ \A i \in 1..Len(df_comp.rows) :
              /\ df_comp.rows[i].categoria = df_presupuesto_final[i].categoria
              /\ df_comp.rows[i].presupuesto_asignado
                   = df_presupuesto_final[i].presupuesto_asignado
              /\ df_comp.rows[i].Diferencia
                   = df_presupuesto_final[i].presupuesto_asignado
                       - SumCategoria(df_gastos_final, df_comp.rows[i].categoria)

\* C4 witness: a comparison computed from a budget that lists a category twice
\* and from transactions with a category the budget does not list.
C4_Witness ==
    /\ df_comp.ok
    /\ \E i, j \in 1..Len(df_presupuesto_final) :
          i # j /\ df_presupuesto_final[i].categoria = df_presupuesto_final[j].categoria
    /\ \E i \in 1..Len(df_gastos_final) :
          /\ df_gastos_final[i].categoria = df_presupuesto_final[1].categoria
          /\ \E j \in 1..Len(df_gastos_final) :
                ~IsCatPresent(df_presupuesto_final, df_gastos_final[j].categoria)

\* C5 as stated: with no transactions and a non-empty budget the comparison
\* still has one row per budget line, with actual spend 0 and difference equal
\* to the assigned amount.
C5_EmptyGastosStillCompared ==
    ComparacionTerminada /\ df_gastos_final = <<>> /\ df_presupuesto_final # <<>> =>
        /\ df_comp.ok
        /\ Len(df_comp.rows) = Len(df_presupuesto_final)
        /\ \A i \in 1..Len(df_comp.rows) :
              /\ df_comp.rows[i].GastoActual = 0
              /\ df_comp.rows[i].Diferencia = df_presupuesto_final[i].presupuesto_asignado

\* C5 amended: with no transactions no comparison is computed, whatever the
\* budget (the block ends on its notice); a budget line gets actual spend 0
\* and difference equal to its assigned amount when the table is non-empty and
\* holds no transaction of the line's category.
C5_EmptyGastosNoComparison ==
    /\ ComparacionTerminada /\ df_gastos_final = <<>> => cpc = "info" /\ ~df_comp.ok
    /\ ComparacionTerminada /\ df_gastos_final # <<>> =>
          /\ df_comp.ok
          /\ Len(df_comp.rows) = Len(df_presupuesto_final)
          /\ \A i \in 1..Len(df_comp.rows) :
                ~IsCatPresent(df_gastos_final, df_presupuesto_final[i].categoria) =>
                    /\ df_comp.rows[i].GastoActual = 0
                    /\ df_comp.rows[i].Diferencia
                         = df_presupuesto_final[i].presupuesto_asignado

\* C5 witness: the block ended on its notice with the scenario's budget.
C5_Witness ==
    /\ cpc = "info"
    /\ df_presupuesto_final = <<[categoria |-> "Renta", presupuesto_asignado |-> 2000]>>

\* ------------------------------------------------------------------------
\* main: one pass of a session over the record store
\* ------------------------------------------------------------------------
\* A database that does not exist yet: crear_tablas() makes the three tables,
\* all empty. Sessions in S are about to run their first pass.
InitStore(S) ==
    /\ db = NoTablas
    /\ pc = [s \in Sessions |-> IF s \in S THEN "leer" ELSE "off"]
    /\ dfs = [s \in Sessions |-> NoTablas]
    /\ edits = [s \in Sessions |-> NoTablas]
    /\ inicio = [s \in Sessions |-> NoTablas]
    /\ pulsados = [s \in Sessions |-> {}]
    /\ guardado = NoGuardado
    /\ previo = [s \in Sessions |-> NoGuardado]
    /\ IdleForecast
    /\ IdleComparar

\* crear_tablas(); df_gastos = leer_tabla_df("gastos"); df_presupuesto = ...;
\* df_ingresos = ...
\* inicio and previo are history variables, kept when hist is TRUE.
Leer(s, hist) ==
    /\ pc[s] = "leer"
    /\ dfs' = [dfs EXCEPT ![s] = [t \in Tablas |-> LeerTabla(db, t)]]
    /\ inicio' = IF hist THEN [inicio EXCEPT ![s] = db] ELSE inicio
    /\ previo' = IF hist THEN [previo EXCEPT ![s] = guardado] ELSE previo
    /\ pc' = [pc EXCEPT ![s] = "sembrar"]
    /\ UNCHANGED <<db, edits, pulsados, guardado, fvars, cvars>>

\* The tables a session read empty.
PorSembrar(s) == {t \in Tablas : Vacia(dfs[s][t])}

\* guardar_tabla_df applied to the seed of every table of T.
RECURSIVE GuardarSeeds(_, _)
GuardarSeeds(store, T) ==
    IF T = {} THEN store
    ELSE LET t == CHOOSE u \in T : TRUE
         IN GuardarSeeds(GuardarTabla(store, Seed(t), t), T \ {t})

\* if df_x.empty: df_x = generar_x_inicial(); guardar_tabla_df(df_x, "x"),
\* for each of the three tables.
Sembrar(s) ==
    /\ pc[s] = "sembrar"
    /\ dfs' = [dfs EXCEPT ![s] = [t \in Tablas |-> IF t \in PorSembrar(s) THEN Seed(t) ELSE @[t]]]
    /\ db' = GuardarSeeds(db, PorSembrar(s))
    /\ guardado' = [t \in Tablas |-> IF t \in PorSembrar(s)
                                     THEN [set |-> TRUE, snap |-> Seed(t), by |-> s]
                                     ELSE guardado[t]]
    /\ pc' = [pc EXCEPT ![s] = "columnas"]
    /\ UNCHANGED <<edits, inicio, pulsados, previo, fvars, cvars>>

\* What the editor of table t returns in a pass whose users work on E.
Editado(s, t, E) == IF t \in E THEN Editor(t, dfs[s][t]) ELSE {dfs[s][t]}

\* The three columns: edit_x = st.data_editor(df_x); if st.button("Guardar X"):
\* guardar_tabla_df(edit_x, "x"). A pass is one rerun of the script, started
\* by one interaction, so at most one of the three buttons is down in it.
Columnas(s, E) ==
    /\ pc[s] = "columnas"
    /\ \E eg \in Editado(s, "gastos", E), ep \in Editado(s, "presupuesto", E),
          ei \in Editado(s, "ingresos", E), boton \in E \cup {"ninguno"} :
          LET e == [gastos |-> eg, presupuesto |-> ep, ingresos |-> ei]
          IN /\ edits' = [edits EXCEPT ![s] = e]
             /\ IF boton \in Tablas
                THEN /\ db' = GuardarTabla(db, e[boton], boton)
                     /\ pulsados' = [pulsados EXCEPT ![s] = {boton}]
                     /\ guardado' = [guardado EXCEPT
                                       ![boton] = [set |-> TRUE, snap |-> e[boton], by |-> s]]
                ELSE /\ pulsados' = [pulsados EXCEPT ![s] = {}]
                     /\ UNCHANGED <<db, guardado>>
    /\ pc' = [pc EXCEPT ![s] = "mostrar"]
    /\ UNCHANGED <<dfs, inicio, previo, fvars, cvars>>

\* The rest of the pass (KPIs, charts, comparison, pivot, forecast) works on
\* copies of the edited frames and writes nothing to the store; the next
\* interaction starts the next pass.
Mostrar(s) ==
    /\ pc[s] = "mostrar"
    /\ pc' = [pc EXCEPT ![s] = "leer"]
    /\ dfs' = [dfs EXCEPT ![s] = NoTablas]
    /\ edits' = [edits EXCEPT ![s] = NoTablas]
    /\ pulsados' = [pulsados EXCEPT ![s] = {}]
    /\ UNCHANGED <<db, inicio, guardado, previo, fvars, cvars>>

Pase(s, E, hist) == Leer(s, hist) \/ Sembrar(s) \/ Columnas(s, E) \/ Mostrar(s)

Init == InitStore({1})
Next == Pase(1, Tablas, TRUE)
Spec == Init /\ [][Next]_vars

\* Two sessions on the same database, both working on gastos.
InitTwo == InitStore({1, 2})
NextTwo == \E s \in Sessions : Pase(s, {"gastos"}, FALSE)
SpecTwo == InitTwo /\ [][NextTwo]_vars

\* ------------------------------------------------------------------------
\* Properties of the record store (checked under Spec and SpecTwo)
\* ------------------------------------------------------------------------
\* Two date cells that denote the same date (whatever its representation),
\* or the same unparseable or missing value.
MismaFecha(a, b) ==
    IF Parses(b) THEN Parses(a) /\ a.d = b.d ELSE a.k = b.k

\* Same rows in the same order with the same values, dates compared as dates.
MismoContenido(f, g) ==
    /\ Len(f) = Len(g)
    /\ \A i \in 1..Len(g) :
          IF "fecha" \in DOMAIN g[i]
          THEN /\ "fecha" \in DOMAIN f[i]
               /\ MismaFecha(f[i].fecha, g[i].fecha)
               /\ f[i].categoria = g[i].categoria
               /\ f[i].monto = g[i].monto
               /\ f[i].tipo = g[i].tipo
          ELSE f[i] = g[i]

\* The session has read and seeded: dfs holds the tables it works with.
Cargado(s) == pc[s] = "columnas"

\* C6 as stated: the table a pass works with has the rows and values of the
\* snapshot that was saved last before the pass, the empty snapshot included.
C6_SaveLoadRoundTrip ==
    Cargado(1) =>
        \A t \in Tablas :
            previo[1][t].set => MismoContenido(dfs[1][t], previo[1][t].snap)

\* C6 amended: the table a pass works with has the rows and values of the
\* snapshot saved last before the pass when that snapshot is not empty (a date
\* held as a Timestamp comes back as the text of the same date); after an
\* empty snapshot the pass works with the seed data.
C6_RoundTripUnlessEmpty ==
    Cargado(1) =>
        \A t \in Tablas :
            previo[1][t].set =>
                IF previo[1][t].snap # <<>>
                THEN /\ MismoContenido(dfs[1][t], previo[1][t].snap)
                     /\ \A i \in 1..Len(dfs[1][t]) :
                           "fecha" \in DOMAIN dfs[1][t][i] => dfs[1][t][i].fecha.k # "ts"
                ELSE dfs[1][t] = Seed(t)

\* C6 witness: a pass works with a gastos table a user saved earlier, one that
\* holds an unparseable date.
C6_Witness ==
    /\ Cargado(1)
    /\ previo[1]["gastos"].set
    /\ \E i \in 1..Len(previo[1]["gastos"].snap) : previo[1]["gastos"].snap[i].fecha.k = "bad"
    /\ previo[1]["presupuesto"].snap # SeedPresupuesto

\* C7 as stated: a pass in which no save button fired leaves the three stored
\* tables as they were when it began, and a save button changes only the
\* table it names.
C7_WrittenOnlyOnSave ==
    pc[1] = "mostrar" =>
        \A t \in Tablas : t \notin pulsados[1] => db[t] = inicio[1][t]

\* C7 amended: during a pass a stored table differs from what it was when the
\* pass began only if its save button fired or it was empty when the pass
\* began; a table that was empty then holds the seed once the pass has seeded,
\* unless its button fired.
C7_WrittenOnSaveOrSeed ==
    pc[1] \in {"sembrar", "columnas", "mostrar"} =>
        \A t \in Tablas :
            /\ db[t] # inicio[1][t] => t \in pulsados[1] \/ inicio[1][t] = <<>>
            /\ pc[1] # "sembrar" /\ inicio[1][t] = <<>> /\ t \notin pulsados[1] =>
                  MismoContenido(db[t], Seed(t))

\* C7 witness: a pass over three non-empty tables in which the presupuesto
\* button fired and only presupuesto changed.
C7_Witness ==
    /\ pc[1] = "mostrar"
    /\ pulsados[1] = {"presupuesto"}
    /\ \A t \in Tablas : inicio[1][t] # <<>>
    /\ db["presupuesto"] # inicio[1]["presupuesto"]
    /\ db["gastos"] = inicio[1]["gastos"]
    /\ db["ingresos"] = inicio[1]["ingresos"]

\* C8: with two sessions, after any interleaving of their saves every stored
\* table holds exactly the rows of the snapshot handed to the latest save
\* (never a mix of two snapshots), and is empty when nothing was saved.
C8_LastSaverWins ==
    \A t \in Tablas :
        IF guardado[t].set THEN MismoContenido(db[t], guardado[t].snap)
        ELSE db[t] = <<>>

\* C8 witness (a lost update): both sessions loaded the same gastos table,
\* each saved a different non-empty snapshot, session 2 last; the store holds
\* session 2's snapshot and not session 1's.
C8_LostUpdateWitness ==
    /\ pc[1] = "mostrar" /\ pc[2] = "mostrar"
    /\ pulsados[1] = {"gastos"} /\ pulsados[2] = {"gastos"}
    /\ dfs[1]["gastos"] = dfs[2]["gastos"]
    /\ edits[1]["gastos"] # <<>> /\ edits[2]["gastos"] # <<>>
    /\ guardado["gastos"].by = 2
    /\ MismoContenido(db["gastos"], edits[2]["gastos"])
    /\ ~MismoContenido(db["gastos"], edits[1]["gastos"])

====
